---- MODULE Spec2Model ----
(***************************************************************************)
(* Model of scraper.py (1969 Camaro tracker): the identity functions       *)
(* clean_url / uid / title_uid, the state store (docs/listings.json and    *)
(* docs/seen_ids.json) and main(): fetch from every adapter, deduplicate,  *)
(* merge with the persisted catalog, sort, truncate, persist, notify.      *)
(*                                                                         *)
(* Strings are sequences of one-character strings so that the string       *)
(* operations of the code (split, lower, strip, re.sub) are computed.      *)
(***************************************************************************)
EXTENDS Integers, Sequences, FiniteSets, TLC

\* ------------------------------------------------------------------ bounds
\* Number of consecutive runs of main() that are explored.
MaxRuns == 2
\* Largest number of listings one adapter returns in one call.
MaxBatch == 2
\* Capacity of the catalog: the slice [:1000] of scraper.py:546, scaled down
\* so that truncation happens with a handful of listings.
K == 2
\* Longest path of a URL built for the identity-stability check.
MaxPathLen == 2

\* ------------------------------------------------------- string functions
\* str.lower() on the letters the model uses.
LowerChar(c) ==
    CASE c = "A" -> "a"
      [] c = "B" -> "b"
      [] c = "C" -> "c"
      [] c = "E" -> "e"
      [] c = "F" -> "f"
      [] c = "K" -> "k"
      [] c = "Q" -> "q"
      [] c = "S" -> "s"
      [] c = "T" -> "t"
      [] OTHER -> c

\* str.upper(), used only to build case variants of a URL.
UpperChar(c) ==
    CASE c = "a" -> "A"
      [] c = "b" -> "B"
      [] c = "f" -> "F"
      [] c = "q" -> "Q"
      [] OTHER -> c

Lower(s) == [i \in 1..Len(s) |-> LowerChar(s[i])]

Upper(s) == [i \in 1..Len(s) |-> UpperChar(s[i])]

IsSpace(c) == c = " "

\* Index of the first occurrence of character c in s, 0 when absent.
RECURSIVE FindFrom(_, _, _)
FindFrom(s, c, i) ==
    IF i > Len(s) THEN 0
    ELSE IF s[i] = c THEN i
    ELSE FindFrom(s, c, i + 1)

\* s.split(c)[0]: the part of s before the first c (all of s when absent).
SplitFirst(s, c) ==
    LET p == FindFrom(s, c, 1)
    IN  IF p = 0 THEN s ELSE SubSeq(s, 1, p - 1)

\* re.sub(r"/$", "", s): drop one slash at the end of s.
DropTrailingSlash(s) ==
    IF Len(s) > 0 /\ s[Len(s)] = "/" THEN SubSeq(s, 1, Len(s) - 1) ELSE s

RECURSIVE LStrip(_)
LStrip(s) ==
    IF Len(s) > 0 /\ IsSpace(s[1]) THEN LStrip(Tail(s)) ELSE s

RECURSIVE RStrip(_)
RStrip(s) ==
    IF Len(s) > 0 /\ IsSpace(s[Len(s)]) THEN RStrip(SubSeq(s, 1, Len(s) - 1)) ELSE s

\* str.strip()
Strip(s) == LStrip(RStrip(s))

\* re.sub(r"\s+", " ", s): every run of whitespace becomes one space.
RECURSIVE CollapseWs(_)
CollapseWs(s) ==
    IF s = <<>> THEN <<>>
    ELSE IF IsSpace(s[1])
         THEN <<" ">> \o CollapseWs(LStrip(s))
         ELSE <<s[1]>> \o CollapseWs(Tail(s))

\* hashlib.md5(x).hexdigest()[:12]: an injective tag of the digested string
\* (collisions of the 48-bit prefix are not modelled).
Md5Prefix(x) == <<"md5", x>>

\* Variant of clean_url that forgets to lower-case.
clean_url_NoLower(url) ==
    Strip(DropTrailingSlash(SplitFirst(SplitFirst(url, "?"), "#")))

clean_url(url) ==
    Strip(Lower(DropTrailingSlash(SplitFirst(SplitFirst(url, "?"), "#"))))

uid(url) == Md5Prefix(clean_url(url))

title_uid(title, source) ==
    Md5Prefix(CollapseWs(Strip(Lower(title))) \o <<"|">> \o Lower(source))

\* ------------------------------------------------------------ the web
\* The adapters in the order main() invokes them (scraper.py:506-514); the
\* model keeps the first two of the seven, named by their source label.
SourceOf == << <<"e", "B", "a", "y">>, <<"K", "i", "j", "i">> >>

NumAdapters == Len(SourceOf)

\* What an adapter may find on a page: a link and the title shown with it.
\* The first two share their canonical URL, the first and the third share
\* their normalised title.
Web ==
    { [url |-> <<"a">>,                title |-> <<"S", " ", "S">>],
      [url |-> <<"A", "/", "?", "q">>, title |-> <<"S", " ", "S">>],
      [url |-> <<"b">>,                title |-> <<" ", "s", " ", " ", "s">>],
      [url |-> <<"c">>,                title |-> <<"C">>] }

\* Every adapter skips a link whose clean_url it has already taken in this
\* call (the `seen` sets of parse_rss and of each scrape_* function).
RECURSIVE SeqsUpTo(_, _)
SeqsUpTo(S, n) ==
    IF n = 0 THEN { <<>> }
    ELSE LET shorter == SeqsUpTo(S, n - 1)
         IN  shorter \cup { Append(q, x) : q \in shorter, x \in S }

Batches ==
    { b \in SeqsUpTo(Web, MaxBatch) :
        \A i, j \in 1..Len(b) : i # j => clean_url(b[i].url) # clean_url(b[j].url) }

\* The listing dict an adapter appends (scraper.py:138-151): the fields the
\* engine reads; t is the value of now_iso().
Listing(w, a, t) ==
    [ id         |-> uid(w.url),
      source     |-> SourceOf[a],
      title      |-> w.title,
      url        |-> w.url,
      fetched_at |-> t,
      is_new     |-> TRUE ]

\* The list an adapter returns for the links in `batch`, fetched from time t on.
Results(batch, a, t) == [i \in 1..Len(batch) |-> Listing(batch[i], a, t + i)]

\* ------------------------------------------------------------- the files
Absent == [kind |-> "absent"]

\* A file whose write stopped after it was opened for writing: truncated or
\* cut short, not valid JSON.
Partial == [kind |-> "partial"]

SeenDoc(ids) == [kind |-> "doc", ids |-> ids]

\* Variant of CatalogDoc that counts every listing it writes as new.
CatalogDoc_CountsFinal(final, new_listings) ==
    [ kind      |-> "doc",
      total     |-> Len(final),
      new_count |-> Len(final),
      listings  |-> final ]

\* The output dict of scraper.py:548-553, without updated_at.
CatalogDoc(final, new_listings) ==
    [ kind      |-> "doc",
      total     |-> Len(final),
      new_count |-> Len(new_listings),
      listings  |-> final ]

load_seen(file) == IF file.kind = "doc" THEN file.ids ELSE {}

load_existing(file) == IF file.kind = "doc" THEN file.listings ELSE <<>>

\* ------------------------------------------------------------ the engine
Ids(listings) == { listings[i].id : i \in 1..Len(listings) }

\* {l["id"]: l for l in load_existing()} (scraper.py:503), as the sequence of
\* the dict's values: a key keeps the place of its first occurrence and the
\* value of its last.
DictById(listings) ==
    LET firsts == SelectSeq([i \in 1..Len(listings) |-> i],
                            LAMBDA i : \A j \in 1..(i - 1) : listings[j].id # listings[i].id)
        lastOf(id) == CHOOSE j \in 1..Len(listings) :
                        /\ listings[j].id = id
                        /\ \A k \in (j + 1)..Len(listings) : listings[k].id # id
    IN  [n \in 1..Len(firsts) |-> listings[lastOf(listings[firsts[n]].id)]]

\* Variant of IsNew that keeps the is_new an adapter sets on every listing.
IsNew_AdapterDefault(id, seen_ids) == TRUE

\* l["id"] not in seen_ids (scraper.py:532)
IsNew(id, seen_ids) == id \notin seen_ids

\* The loop of scraper.py:527-535 over the rest of all_fetched; st holds
\* merged (the dict's values in insertion order), seen_title_ids and
\* new_listings.
RECURSIVE DedupLoop(_, _, _)
DedupLoop(rest, seen_ids, st) ==
    IF rest = <<>> THEN st
    ELSE LET l   == Head(rest)
             tid == title_uid(l.title, l.source)
         IN  IF l.id \in Ids(st.merged) \/ tid \in st.seen_title_ids
             THEN DedupLoop(Tail(rest), seen_ids, st)
             ELSE LET m == [l EXCEPT !.is_new = IsNew(l.id, seen_ids)]
                  IN  DedupLoop(Tail(rest), seen_ids,
                        [ merged         |-> Append(st.merged, m),
                          seen_title_ids |-> st.seen_title_ids \cup {tid},
                          new_listings   |-> IF m.is_new THEN Append(st.new_listings, m)
                                             ELSE st.new_listings ])

Dedup(all_fetched, seen_ids) ==
    DedupLoop(all_fetched, seen_ids,
              [merged |-> <<>>, seen_title_ids |-> {}, new_listings |-> <<>>])

\* Variant of CarryForward that leaves the persisted is_new as it is.
CarryForward_KeepFlag(l) == l

\* l["is_new"] = False (scraper.py:540)
CarryForward(l) == [l EXCEPT !.is_new = FALSE]

\* The loop of scraper.py:538-541 over the rest of existing's values.
RECURSIVE KeepOld(_, _)
KeepOld(merged, rest) ==
    IF rest = <<>> THEN merged
    ELSE IF Head(rest).id \in Ids(merged)
         THEN KeepOld(merged, Tail(rest))
         ELSE KeepOld(Append(merged, CarryForward(Head(rest))), Tail(rest))

\* Variant of KeyLess whose key is fetched_at alone.
KeyLess_TimeOnly(x, y) == x.fetched_at < y.fetched_at

\* The sort key (not x["is_new"], x.get("fetched_at", "")) of scraper.py:545,
\* compared as Python compares tuples, with False < True.
KeyLess(x, y) ==
    \/ x.is_new /\ ~y.is_new
    \/ x.is_new = y.is_new /\ x.fetched_at < y.fetched_at

\* sorted() is stable: x goes after every element whose key is not greater.
InsertSorted(s, x) ==
    LET later == { i \in 1..Len(s) : KeyLess(x, s[i]) }
        p     == IF later = {} THEN Len(s) + 1
                 ELSE CHOOSE i \in later : \A j \in later : i <= j
    IN  SubSeq(s, 1, p - 1) \o <<x>> \o SubSeq(s, p, Len(s))

RECURSIVE Sorted(_)
Sorted(s) ==
    IF s = <<>> THEN <<>>
    ELSE InsertSorted(Sorted(SubSeq(s, 1, Len(s) - 1)), s[Len(s)])

\* sorted(merged.values(), key=...)[:1000] (scraper.py:543-546)
Final(merged) ==
    LET s == Sorted(merged)
    IN  SubSeq(s, 1, IF Len(s) < K THEN Len(s) ELSE K)

\* Variant of UpdatedSeen that keeps only the identities of this run.
UpdatedSeen_Replace(seen_ids, all_fetched) == Ids(all_fetched)

\* Variant of UpdatedSeen that saves the ledger as it was loaded.
UpdatedSeen_NoUpdate(seen_ids, all_fetched) == seen_ids

\* seen_ids.update(l["id"] for l in all_fetched) (scraper.py:557)
UpdatedSeen(seen_ids, all_fetched) == seen_ids \cup Ids(all_fetched)

\* -------------------------------------------------------------- the state
VARIABLES
    outFile,       \* docs/listings.json
    seenFile,      \* docs/seen_ids.json
    pc,            \* where main() stands; "idle" between two runs
    adapter,       \* index of the adapter the loop of main() invokes next
    now,           \* the clock now_iso() reads
    seen_ids,      \* main(): seen_ids
    existing,      \* main(): the values of existing, in the dict's order
    all_fetched,   \* main(): all_fetched
    merged,        \* main(): the values of merged, in the dict's order
    new_listings,  \* main(): new_listings
    final,         \* main(): final
    exit_status,   \* exit status of the last run: 0, 1, or -1 before any run
    failure,       \* what ended the last run: "none" or the call that raised
    run,           \* number of runs started
    start,         \* history: both files as the last run found them
    aborted,       \* history: some run ended before it had saved both files
    batches,       \* history: what each adapter invoked in this run found
    raised,        \* history: the adapters that raised in this run
    sent,          \* history: send_email() delivered in the last run
    prev,          \* history: the last run, once it has exited
    path,          \* identity check: the canonical path both URLs are built on
    urlA,          \* identity check: first URL
    urlB,          \* identity check: second URL
    idA,           \* identity check: uid(urlA)
    idB,           \* identity check: uid(urlB)
    upc            \* identity check: position

runVars == <<outFile, seenFile, pc, adapter, now, seen_ids, existing, all_fetched,
             merged, new_listings, final, exit_status, failure, run, start,
             aborted, batches, raised, sent, prev>>

urlVars == <<path, urlA, urlB, idA, idB, upc>>

vars == <<runVars, urlVars>>

\* What is known of a run that did not persist both files.
NoPrev == [persisted |-> FALSE]

InitRun ==
    /\ outFile = Absent
    /\ seenFile = Absent
    /\ pc = "idle"
    /\ adapter = 0
    /\ now = 0
    /\ seen_ids = {}
    /\ existing = <<>>
    /\ all_fetched = <<>>
    /\ merged = <<>>
    /\ new_listings = <<>>
    /\ final = <<>>
    /\ exit_status = -1
    /\ failure = "none"
    /\ run = 0
    /\ start = [out |-> Absent, seen |-> Absent]
    /\ aborted = FALSE
    /\ batches = <<>>
    /\ raised = {}
    /\ sent = FALSE
    /\ prev = NoPrev

InitUrl ==
    /\ path = <<>>
    /\ urlA = <<>>
    /\ urlB = <<>>
    /\ idA = <<>>
    /\ idB = <<>>
    /\ upc = "off"

Init == InitRun /\ InitUrl

\* The process ends: its memory is gone, the files and the clock stay.
Exit(status, cause, delivered, summary) ==
    /\ pc' = "idle"
    /\ adapter' = 0
    /\ seen_ids' = {}
    /\ existing' = <<>>
    /\ all_fetched' = <<>>
    /\ merged' = <<>>
    /\ new_listings' = <<>>
    /\ final' = <<>>
    /\ batches' = <<>>
    /\ raised' = {}
    /\ exit_status' = status
    /\ failure' = cause
    /\ sent' = delivered
    /\ prev' = summary
    /\ aborted' = (aborted \/ ~summary.persisted)
    /\ UNCHANGED start

\* main(), scraper.py:499-503: both files are read.
StartRun ==
    /\ pc = "idle"
    /\ run < MaxRuns
    /\ seenFile # Partial
    /\ outFile # Partial
    /\ run' = run + 1
    /\ seen_ids' = load_seen(seenFile)
    /\ start' = [out |-> outFile, seen |-> seenFile]
    /\ existing' = DictById(load_existing(outFile))
    /\ pc' = "fetch"
    /\ adapter' = 1
    /\ exit_status' = -1
    /\ failure' = "none"
    /\ sent' = FALSE
    /\ UNCHANGED <<outFile, seenFile, now, all_fetched, merged, new_listings, final,
                   batches, raised, prev, aborted>>
    /\ UNCHANGED urlVars

\* json.loads raises on a file that is not valid JSON (scraper.py:434, 442):
\* the exception leaves main() before anything is fetched or written.
LoadFails ==
    /\ pc = "idle"
    /\ run < MaxRuns
    /\ seenFile = Partial \/ outFile = Partial
    /\ run' = run + 1
    /\ Exit(1, "load", FALSE, NoPrev)
    /\ UNCHANGED <<outFile, seenFile, now>>
    /\ UNCHANGED urlVars

\* The pass of the loop after adapter a was tried: scraper.py:506-520.
NextAdapter ==
    /\ adapter' = adapter + 1
    /\ pc' = IF adapter = NumAdapters THEN "dedup" ELSE "fetch"
    /\ now' = now + MaxBatch

\* fn() returns: its results are appended (scraper.py:516-517).
AdapterReturns ==
    /\ pc = "fetch"
    /\ \E b \in Batches :
        /\ all_fetched' = all_fetched \o Results(b, adapter, now)
        /\ batches' = Append(batches, b)
    /\ NextAdapter
    /\ UNCHANGED <<outFile, seenFile, seen_ids, existing, merged, new_listings, final,
                   exit_status, failure, run, start, aborted, raised, sent, prev>>
    /\ UNCHANGED urlVars

\* Variant of AdapterRaises in which the exception leaves main().
AdapterRaises_Propagates ==
    /\ pc = "fetch"
    /\ Exit(1, "adapter", FALSE, NoPrev)
    /\ UNCHANGED <<outFile, seenFile, now, run>>
    /\ UNCHANGED urlVars

\* fn() raises: the except clause logs it and the loop goes on
\* (scraper.py:519-520).
AdapterRaises ==
    /\ pc = "fetch"
    /\ batches' = Append(batches, <<>>)
    /\ raised' = raised \cup {adapter}
    /\ NextAdapter
    /\ UNCHANGED <<outFile, seenFile, seen_ids, existing, all_fetched, merged,
                   new_listings, final, exit_status, failure, run, start, aborted, sent,
                   prev>>
    /\ UNCHANGED urlVars

\* scraper.py:522-546: deduplicate, keep the old listings, sort, truncate.
DedupAndMerge ==
    /\ pc = "dedup"
    /\ LET d == Dedup(all_fetched, seen_ids)
           m == KeepOld(d.merged, existing)
       IN  /\ new_listings' = d.new_listings
           /\ merged' = m
           /\ final' = Final(m)
    /\ pc' = "write_catalog"
    /\ UNCHANGED <<outFile, seenFile, adapter, now, seen_ids, existing, all_fetched,
                   exit_status, failure, run, start, aborted, batches, raised, sent, prev>>
    /\ UNCHANGED urlVars

\* OUTPUT_FILE.write_text(json.dumps(output)) (scraper.py:548-554)
WriteCatalog ==
    /\ pc = "write_catalog"
    /\ outFile' = CatalogDoc(final, new_listings)
    /\ pc' = "save_seen"
    /\ UNCHANGED <<seenFile, adapter, now, seen_ids, existing, all_fetched, merged,
                   new_listings, final, exit_status, failure, run, start, aborted, batches,
                   raised, sent, prev>>
    /\ UNCHANGED urlVars

\* write_text raises (or the process is stopped at this line): the file could
\* not be opened and is as before, or it was opened, which truncates it, and
\* the write did not finish.
WriteCatalogFails ==
    /\ pc = "write_catalog"
    /\ outFile' \in {outFile, Partial}
    /\ Exit(1, "write_catalog", FALSE, NoPrev)
    /\ UNCHANGED <<seenFile, now, run>>
    /\ UNCHANGED urlVars

\* What the run leaves for the next one to compare itself with.
Summary ==
    [ persisted |-> TRUE,
      batches   |-> batches,
      ids       |-> Ids(final),
      total     |-> Len(final) ]

\* seen_ids.update(...); save_seen(seen_ids) (scraper.py:557-558, 437-438)
SaveSeen ==
    /\ pc = "save_seen"
    /\ seen_ids' = UpdatedSeen(seen_ids, all_fetched)
    /\ seenFile' = SeenDoc(UpdatedSeen(seen_ids, all_fetched))
    /\ pc' = "notify"
    /\ UNCHANGED <<outFile, adapter, now, existing, all_fetched, merged, new_listings,
                   final, exit_status, failure, run, start, aborted, batches, raised, sent,
                   prev>>
    /\ UNCHANGED urlVars

\* SEEN_FILE.write_text raises, or the process is stopped between the two
\* writes: the catalog is already written.
SaveSeenFails ==
    /\ pc = "save_seen"
    /\ seenFile' \in {seenFile, Partial}
    /\ Exit(1, "save_seen", FALSE, NoPrev)
    /\ UNCHANGED <<outFile, now, run>>
    /\ UNCHANGED urlVars

\* scraper.py:560-563 with send_email returning at once (scraper.py:449-450),
\* or not called at all: nothing new, or EMAIL_FROM / EMAIL_PASS not set.
NotifySkipped ==
    /\ pc = "notify"
    /\ \E credentials \in BOOLEAN : new_listings = <<>> \/ ~credentials
    /\ Exit(0, "none", FALSE, Summary)
    /\ UNCHANGED <<outFile, seenFile, now, run>>
    /\ UNCHANGED urlVars

\* send_email delivers (scraper.py:491-494) and main() returns.
EmailSent ==
    /\ pc = "notify"
    /\ new_listings # <<>>
    /\ Exit(0, "none", TRUE, Summary)
    /\ UNCHANGED <<outFile, seenFile, now, run>>
    /\ UNCHANGED urlVars

\* smtplib raises in SMTP_SSL, login or sendmail (scraper.py:491-493): no
\* handler in send_email nor around its call in main(), the run ends with a
\* traceback.
EmailRaises ==
    /\ pc = "notify"
    /\ new_listings # <<>>
    /\ Exit(1, "send_email", FALSE, Summary)
    /\ UNCHANGED <<outFile, seenFile, now, run>>
    /\ UNCHANGED urlVars

Next ==
    \/ StartRun
    \/ LoadFails
    \/ AdapterReturns
    \/ AdapterRaises
    \/ DedupAndMerge
    \/ WriteCatalog
    \/ WriteCatalogFails
    \/ SaveSeen
    \/ SaveSeenFails
    \/ NotifySkipped
    \/ EmailSent
    \/ EmailRaises

Spec == Init /\ [][Next]_vars

\* ----------------------------------------- identity of equivalent URLs
\* A second specification: two URLs are built on one canonical path by
\* changing letter case, adding one trailing slash, a query string and a
\* fragment, and uid is applied to both.
PathChars == {"a", "B", "/", " "}

\* Paths that carry no query, no fragment and no trailing slash of their own.
Paths == { p \in SeqsUpTo(PathChars, MaxPathLen) : p = <<>> \/ p[Len(p)] # "/" }

CaseVariants(p) == {p, Lower(p), Upper(p)}

Slashes == { <<>>, <<"/">> }

Queries == { <<>>, <<"?", "q">>, <<"?", "Q", "/">> }

Fragments == { <<>>, <<"#", "f">>, <<"#", "F", "?", "/">> }

Variants(p) ==
    { c \o s \o q \o f : c \in CaseVariants(p), s \in Slashes, q \in Queries, f \in Fragments }

InitUrlCheck ==
    /\ InitRun
    /\ path \in Paths
    /\ urlA = <<>>
    /\ urlB = <<>>
    /\ idA = <<>>
    /\ idB = <<>>
    /\ upc = "build"

BuildUrls ==
    /\ upc = "build"
    /\ urlA' \in Variants(path)
    /\ urlB' \in Variants(path)
    /\ upc' = "built"
    /\ UNCHANGED <<path, idA, idB>>
    /\ UNCHANGED runVars

ApplyUid ==
    /\ upc = "built"
    /\ idA' = uid(urlA)
    /\ idB' = uid(urlB)
    /\ upc' = "done"
    /\ UNCHANGED <<path, urlA, urlB>>
    /\ UNCHANGED runVars

NextUrl ==
    \/ BuildUrls
    \/ ApplyUid

SpecUrl == InitUrlCheck /\ [][NextUrl]_vars

\* ------------------------------------------------------------ properties
Persisted == pc \in {"save_seen", "notify"}

Computed == pc \in {"write_catalog", "save_seen", "notify"}

TitleIdentity(l) == title_uid(l.title, l.source)

\* C1 (as claimed): in every catalog main() has written, the records have
\* pairwise distinct id and pairwise distinct title_identity.
C1_CatalogKeysUnique ==
    outFile.kind = "doc" =>
        \A i, j \in 1..Len(outFile.listings) :
            i # j => /\ outFile.listings[i].id # outFile.listings[j].id
                     /\ TitleIdentity(outFile.listings[i]) # TitleIdentity(outFile.listings[j])

\* C2: while no run has been cut short, a record of the run's final catalog
\* is new exactly when its identity was not in the ledger the run loaded.
C2_IsNewIffAbsentAtStart ==
    (Computed /\ ~aborted) =>
        \A i \in 1..Len(final) :
            final[i].is_new <=> final[i].id \notin load_seen(start.seen)

C2_Witness ==
    /\ pc = "notify"
    /\ ~aborted
    /\ run = 2
    /\ \E i, j \in 1..Len(final) :
        /\ final[i].is_new
        /\ ~final[j].is_new
        /\ final[j].id \in Ids(all_fetched)

\* C3: the final catalog holds at most K records, exactly K when more than K
\* were merged, and every new record of the run when there are at most K.
C3_RetentionBound ==
    Computed =>
        /\ Len(final) <= K
        /\ Len(merged) > K => Len(final) = K
        /\ Len(new_listings) <= K =>
             \A i \in 1..Len(new_listings) :
                 \E j \in 1..Len(final) : final[j] = new_listings[i]
        /\ Persisted => Len(outFile.listings) <= K

C3_Witness ==
    /\ Persisted
    /\ Len(merged) > K
    /\ new_listings # <<>>
    /\ Len(new_listings) <= K
    /\ \E i \in 1..Len(merged) : ~merged[i].is_new

\* What all_fetched holds once the adapters of bs have been tried, without
\* the time of fetching.
RECURSIVE Flatten(_, _)
Flatten(bs, a) ==
    IF a > Len(bs) THEN <<>>
    ELSE [i \in 1..Len(bs[a]) |->
            [url |-> bs[a][i].url, title |-> bs[a][i].title, source |-> SourceOf[a]]]
         \o Flatten(bs, a + 1)

Raw(listings) ==
    [i \in 1..Len(listings) |->
        [url |-> listings[i].url, title |-> listings[i].title, source |-> listings[i].source]]

\* C4: an adapter that raises adds nothing and ends nothing: the adapters
\* are tried one after the other, all of them before the merge, all_fetched
\* is what the others returned in that order, and no run ends on an
\* adapter's exception.
C4_AdapterFailureIsolated ==
    /\ failure \in {"none", "load", "write_catalog", "save_seen", "send_email"}
    /\ pc = "fetch" => Len(batches) = adapter - 1
    /\ pc \in {"dedup", "write_catalog", "save_seen", "notify"} => Len(batches) = NumAdapters
    /\ pc # "idle" =>
         /\ \A a \in raised : batches[a] = <<>>
         /\ Raw(all_fetched) = Flatten(batches, 1)

C4_Witness ==
    /\ pc = "notify"
    /\ raised = {1}
    /\ all_fetched # <<>>
    /\ outFile = CatalogDoc(final, new_listings)
    /\ Ids(all_fetched) \subseteq seenFile.ids

\* C5 (as claimed): a run that ended on a failed write has left both files
\* as it found them.
C5_NoPartialState ==
    (pc = "idle" /\ failure \in {"write_catalog", "save_seen"}) =>
        /\ outFile = start.out
        /\ seenFile = start.seen

\* C6 (as claimed): a run that reached the notification exits with status 0,
\* whether or not send_email raised.
C6_NotifyFailureRecovered ==
    (pc = "idle" /\ prev.persisted) => exit_status = 0

\* C7: a run given the batches of the run before it, which saved both files,
\* finds nothing new, and keeps the identities of that run's catalog when
\* that catalog was below capacity.
C7_RepeatedRun ==
    (Computed /\ prev.persisted /\ batches = prev.batches) =>
        /\ new_listings = <<>>
        /\ \A i \in 1..Len(final) : ~final[i].is_new
        /\ prev.total < K => Ids(final) = prev.ids

C7_Witness ==
    /\ pc = "notify"
    /\ prev.persisted
    /\ batches = prev.batches
    /\ all_fetched # <<>>
    /\ prev.total < K
    /\ outFile.new_count = 0

\* C8: the ledger a run saves is the ledger it loaded united with the
\* identities of everything it fetched, and a readable ledger holds every
\* identity the last run found in it.
C8_LedgerGrows ==
    /\ pc = "notify" =>
         /\ seenFile.kind = "doc"
         /\ seenFile.ids = load_seen(start.seen) \cup Ids(all_fetched)
    /\ seenFile.kind = "doc" => load_seen(start.seen) \subseteq seenFile.ids

C8_Witness ==
    /\ pc = "notify"
    /\ load_seen(start.seen) # {}
    /\ Ids(all_fetched) # {}
    /\ ~(Ids(all_fetched) \subseteq load_seen(start.seen))
    /\ ~(load_seen(start.seen) \subseteq Ids(all_fetched))

\* C9: two URLs built on one path that ends in no slash, differing in letter
\* case, in one trailing slash, in the query string and in the fragment,
\* have the same clean_url and the same uid.
C9_IdentityStable ==
    upc = "done" =>
        /\ idA = idB
        /\ clean_url(urlA) = clean_url(urlB)

C9_Witness ==
    /\ upc = "done"
    /\ urlA = <<"a", "B">>
    /\ urlB = <<"A", "B", "/", "?", "Q", "/", "#", "f">>
    /\ idA = idB

\* C10: a run whose adapters all raised or returned nothing writes the
\* records of the catalog it found, each with is_new false, and new_count 0.
C10_NothingFetched ==
    (Persisted /\ all_fetched = <<>>) =>
        LET old == load_existing(start.out)
        IN  /\ outFile.kind = "doc"
            /\ outFile.new_count = 0
            /\ outFile.total = Len(old)
            /\ Len(outFile.listings) = Len(old)
            /\ { outFile.listings[i] : i \in 1..Len(old) }
                 = { [old[i] EXCEPT !.is_new = FALSE] : i \in 1..Len(old) }

C10_Witness ==
    /\ pc = "notify"
    /\ all_fetched = <<>>
    /\ raised # {}
    /\ Len(existing) = K
    /\ \E i \in 1..Len(existing) : existing[i].is_new

\* C11 (as claimed): of the records that are not new, truncation removes the
\* oldest: none that is removed was fetched later than one that is kept.
C11_OldestDroppedFirst ==
    Computed =>
        \A i \in 1..Len(merged) :
            (~merged[i].is_new /\ merged[i].id \notin Ids(final)) =>
                \A j \in 1..Len(final) :
                    ~final[j].is_new => merged[i].fetched_at <= final[j].fetched_at

\* Number of records of listings whose is_new is true.
NewIn(listings) == Cardinality({ i \in 1..Len(listings) : listings[i].is_new })

\* C12 (as claimed): in every catalog main() has written, new_count is the
\* number of listings with is_new true and total is the number of listings.
C12_CountsMatchListings ==
    outFile.kind = "doc" =>
        /\ outFile.new_count = NewIn(outFile.listings)
        /\ outFile.total = Len(outFile.listings)

\* C12 (amended): total is the number of listings; new_count is the number
\* of listings with is_new true whenever it is at most K, and otherwise the
\* catalog holds K listings, all of them new.
C12_CountsBeforeTruncation ==
    outFile.kind = "doc" =>
        /\ outFile.total = Len(outFile.listings)
        /\ outFile.new_count <= K => outFile.new_count = NewIn(outFile.listings)
        /\ outFile.new_count > K =>
             /\ Len(outFile.listings) = K
             /\ NewIn(outFile.listings) = K

C12_Witness ==
    /\ pc = "notify"
    /\ outFile = CatalogDoc(final, new_listings)
    /\ outFile.new_count > K
    /\ NewIn(outFile.listings) = K

====
